---- MODULE Spec2Model ----
(***************************************************************************)
(* PharmaCalc: the GST price calculator of src/App.tsx (React component    *)
(* App), its voice session (Gemini Live) and its analysis request.         *)
(*                                                                         *)
(* Numbers.  The component computes with JavaScript numbers.  The model    *)
(* computes with exact rationals n/d (kept in lowest terms), extended by   *)
(* Infinity and NaN as JavaScript has them; the rounding error of IEEE     *)
(* doubles (a few units in the last place) is outside the model.           *)
(*                                                                         *)
(* Text.  A string is a sequence of one-character strings, so that         *)
(* parseFloat, Number.prototype.toString and the input pattern are         *)
(* computed character by character, as the runtime computes them.          *)
(*                                                                         *)
(* React.  The state of the component is what its hooks hold once every    *)
(* queued update is applied; `rendered` is the state the last committed    *)
(* render read, and the handlers of that render read it too.  An update    *)
(* made in a React event (click, change) is rendered before the event      *)
(* returns: an effect that is still due runs first, the render applies the *)
(* updates of the event alone, and the effect of lines 66-73 runs when     *)
(* [mrpInput, calculationMode] of the render changed.  An update made      *)
(* anywhere else (the effect, a socket callback, a promise continuation)   *)
(* is rendered by a later task.  A setter called with the value the state  *)
(* already has is dropped only on the mounted App, before its first update *)
(* (`updated`); later it schedules a render, which flushes a due effect.   *)
(*                                                                         *)
(* Event loop.  An async handler runs to its await and resumes in a later  *)
(* step.  The continuation of await decodeAudioData is a microtask: no     *)
(* task runs before it, but the caller of the callback still can.          *)
(***************************************************************************)
EXTENDS Integers, Sequences, FiniteSets, TLC

\* ------------------------------------------------------------------------
\* JavaScript numbers: finite rationals, +-Infinity, NaN
\* ------------------------------------------------------------------------

Null == [k |-> "null"]

Abs(x) == IF x < 0 THEN -x ELSE x

RECURSIVE GCD(_, _)
GCD(a, b) == IF b = 0 THEN a ELSE GCD(b, a % b)

RECURSIVE Pow10(_)
Pow10(e) == IF e <= 0 THEN 1 ELSE 10 * Pow10(e - 1)

NaN == [k |-> "nan"]

Inf(s) == [k |-> "inf", s |-> s]

\* The finite number n/d, d # 0, in lowest terms with a positive denominator.
Fin(n, d) ==
    LET g == GCD(Abs(n), Abs(d))
        sg == IF d < 0 THEN -1 ELSE 1
    IN  [k |-> "fin", n |-> sg * (n \div g), d |-> sg * (d \div g)]

Sign(x) == IF x.k = "inf" THEN x.s ELSE IF x.n > 0 THEN 1 ELSE IF x.n < 0 THEN -1 ELSE 0

\* x * y of JavaScript (cross-reduced before multiplying, to keep the terms small)
Mul(x, y) ==
    IF x.k = "nan" \/ y.k = "nan" THEN NaN
    ELSE IF x.k = "inf" \/ y.k = "inf"
         THEN IF Sign(x) * Sign(y) = 0 THEN NaN ELSE Inf(Sign(x) * Sign(y))
    ELSE LET g1 == GCD(Abs(x.n), y.d)
             g2 == GCD(Abs(y.n), x.d)
         IN  Fin((x.n \div g1) * (y.n \div g2), (x.d \div g2) * (y.d \div g1))

\* x / y of JavaScript
Div(x, y) ==
    IF x.k = "nan" \/ y.k = "nan" THEN NaN
    ELSE IF x.k = "inf" THEN (IF y.k = "inf" THEN NaN
                              ELSE Inf(x.s * (IF Sign(y) < 0 THEN -1 ELSE 1)))
    ELSE IF y.k = "inf" THEN Fin(0, 1)
    ELSE IF y.n = 0 THEN (IF x.n = 0 THEN NaN ELSE Inf(Sign(x)))
    ELSE Mul(x, Fin(y.d, y.n))

\* x - y of JavaScript
Sub(x, y) ==
    IF x.k = "nan" \/ y.k = "nan" THEN NaN
    ELSE IF x.k = "inf" THEN (IF y.k = "inf" /\ y.s = x.s THEN NaN ELSE x)
    ELSE IF y.k = "inf" THEN Inf(-y.s)
    ELSE Fin(x.n * y.d - y.n * x.d, x.d * y.d)

isNaN(x) == x.k = "nan"

\* x > 0 of JavaScript (false for NaN)
GtZero(x) == x.k # "nan" /\ Sign(x) > 0

isFinite(x) == x.k = "fin"

\* ------------------------------------------------------------------------
\* Text: parseFloat, Number.prototype.toString, the input pattern
\* ------------------------------------------------------------------------

Digits == <<"0", "1", "2", "3", "4", "5", "6", "7", "8", "9">>

IsDigit(c) == \E i \in 1..10 : Digits[i] = c

DigitVal(c) == (CHOOSE i \in 1..10 : Digits[i] = c) - 1

Drop(t, n) == SubSeq(t, n + 1, Len(t))

IsPrefix(p, t) == Len(p) <= Len(t) /\ SubSeq(t, 1, Len(p)) = p

\* the longest prefix of t made of decimal digits
RECURSIVE TakeDigits(_)
TakeDigits(t) ==
    IF t # <<>> /\ IsDigit(Head(t)) THEN <<Head(t)>> \o TakeDigits(Tail(t)) ELSE <<>>

\* the value of a digit sequence (0 for the empty one)
RECURSIVE DigitsVal(_)
DigitsVal(ds) ==
    IF ds = <<>> THEN 0 ELSE 10 * DigitsVal(SubSeq(ds, 1, Len(ds) - 1)) + DigitVal(ds[Len(ds)])

\* StrWhiteSpaceChar of ECMA-262: the white space and the line terminators.  The
\* characters that have no escape in a TLA+ string are written by their names.
StrWhiteSpaceChar ==
    { " ", "\t", "\n", "\r", "\f", "<VT>", "<NBSP>", "<ZWNBSP>", "<LS>", "<PS>", "<USP>" }

\* the text without its leading white space (String.prototype.trimStart)
RECURSIVE SkipWs(_)
SkipWs(t) == IF t # <<>> /\ Head(t) \in StrWhiteSpaceChar THEN SkipWs(Tail(t)) ELSE t

InfinityText == <<"I", "n", "f", "i", "n", "i", "t", "y">>

\* parseFloat(t): leading white space is skipped, then the longest prefix that is a
\* StrDecimalLiteral ([+-] Infinity | digits [. digits] [e[+-]digits] | . digits ...)
\* is converted; NaN when there is none.  The stages below each consume one part
\* of the literal and hand the rest on.

\* mantissa digits ip . fp, sign sg, decimal exponent ex
DecimalValue(sg, ip, fp, ex) ==
    Mul(Fin(sg * (DigitsVal(ip) * Pow10(Len(fp)) + DigitsVal(fp)), Pow10(Len(fp))),
        IF ex >= 0 THEN Fin(Pow10(ex), 1) ELSE Fin(1, Pow10(-ex)))

\* r3 is what follows an "e": an optional sign and the exponent's digits
ExponentOf(r3) ==
    (IF r3 # <<>> /\ Head(r3) = "-" THEN -1 ELSE 1)
    * DigitsVal(TakeDigits(IF r3 # <<>> /\ Head(r3) \in {"+", "-"} THEN Tail(r3) ELSE r3))

HasExponent(r2) ==
    /\ r2 # <<>>
    /\ Head(r2) \in {"e", "E"}
    /\ TakeDigits(IF Len(r2) > 1 /\ r2[2] \in {"+", "-"} THEN Drop(r2, 2) ELSE Tail(r2)) # <<>>

\* r2 is what follows the mantissa
ParseExponent(sg, ip, fp, r2) ==
    IF ip = <<>> /\ fp = <<>> THEN NaN
    ELSE DecimalValue(sg, ip, fp, IF HasExponent(r2) THEN ExponentOf(Tail(r2)) ELSE 0)

\* r1 is what follows the integer digits and starts with "."; fp the digits after it
ParseAfterDot(sg, ip, fp, r1) == ParseExponent(sg, ip, fp, Drop(r1, 1 + Len(fp)))

\* r1 is what follows the integer digits ip
ParseFraction(sg, ip, r1) ==
    IF r1 # <<>> /\ Head(r1) = "."
    THEN ParseAfterDot(sg, ip, TakeDigits(Tail(r1)), r1)
    ELSE ParseExponent(sg, ip, <<>>, r1)

ParseDigits(sg, ip, s1) == ParseFraction(sg, ip, Drop(s1, Len(ip)))

\* s1 is the text after white space and sign
ParseUnsigned(sg, s1) ==
    IF IsPrefix(InfinityText, s1) THEN Inf(sg) ELSE ParseDigits(sg, TakeDigits(s1), s1)

ParseSigned(s0) ==
    ParseUnsigned(IF s0 # <<>> /\ Head(s0) = "-" THEN -1 ELSE 1,
                  IF s0 # <<>> /\ Head(s0) \in {"+", "-"} THEN Tail(s0) ELSE s0)

parseFloat(t) == ParseSigned(SkipWs(t))

\* the decimal digits of the natural number n
RECURSIVE NatToText(_)
NatToText(n) ==
    IF n < 10 THEN <<Digits[n + 1]>> ELSE NatToText(n \div 10) \o <<Digits[(n % 10) + 1]>>

\* the digits of n, padded with leading zeros to width w
RECURSIVE PadDigits(_, _)
PadDigits(n, w) == IF w = 0 THEN <<>> ELSE PadDigits(n \div 10, w - 1) \o <<Digits[(n % 10) + 1]>>

MaxPlaces == 6

\* Number.prototype.toString(): "NaN", "Infinity", "-Infinity", and for a finite
\* number in the range the model uses (a decimal fraction of at most MaxPlaces
\* places, magnitude below 1e21 and not below 1e-6) the plain decimal notation.
NumberToString(x) ==
    IF x.k = "nan" THEN <<"N", "a", "N">>
    ELSE IF x.k = "inf" THEN (IF x.s < 0 THEN <<"-">> ELSE <<>>) \o InfinityText
    ELSE LET p == CHOOSE q \in 0..MaxPlaces :
                      /\ Pow10(q) % x.d = 0
                      /\ \A r \in 0..(q - 1) : Pow10(r) % x.d # 0
             m == Abs(x.n) * (Pow10(p) \div x.d)
         IN  (IF x.n < 0 THEN <<"-">> ELSE <<>>)
             \o NatToText(m \div Pow10(p))
             \o (IF p = 0 THEN <<>> ELSE <<".">> \o PadDigits(m % Pow10(p), p))

\* the pattern /^[\d.]*$/, which admits any number of points
MatchesDigitsAndPoints(t) == \A i \in DOMAIN t : IsDigit(t[i]) \/ t[i] = "."

\* /^\d*\.?\d*$/.test(t)
MatchesDecimalPattern(t) ==
    LET ip == TakeDigits(t)
        r1 == Drop(t, Len(ip))
        r2 == IF r1 # <<>> /\ Head(r1) = "." THEN Tail(r1) ELSE r1
    IN  Drop(r2, Len(TakeDigits(r2))) = <<>>

\* ------------------------------------------------------------------------
\* Core calculation (calculate / processRow)
\* ------------------------------------------------------------------------

Hundred == Fin(100, 1)
One == Fin(1, 1)

\* the two fixed rules: 6.25 and 11.02
Rule12Percent == Fin(625, 100)
Rule18Percent == Fin(1102, 100)

Modes == {"original", "new"}

\* processRow with the reduction applied as the fraction kept (the "1 -" left out)
processRowRateAsFraction(val, reductionPercent, label, mode) ==
    LET rate == Div(reductionPercent, Hundred)
        originalMrp == IF mode = "original" THEN val ELSE Div(val, rate)
        newMrp == IF mode = "original" THEN Mul(val, rate) ELSE val
        intermediatePrice == Mul(newMrp, Div(Hundred, Fin(105, 1)))
        finalTradePrice == Mul(intermediatePrice, Fin(80, 100))
        gstAmount == Mul(finalTradePrice, Fin(5, 100))
    IN  [ label |-> label,
          reductionPercent |-> reductionPercent,
          inputMrp |-> originalMrp,
          newMrp |-> newMrp,
          intermediateTradePrice |-> intermediatePrice,
          finalTradePrice |-> finalTradePrice,
          gstAmount |-> gstAmount ]

\* processRow whose 'new' branch multiplies by the rate instead of dividing by it
processRowInverseMultiplies(val, reductionPercent, label, mode) ==
    LET rate == Sub(One, Div(reductionPercent, Hundred))
        originalMrp == IF mode = "original" THEN val ELSE Mul(val, rate)
        newMrp == IF mode = "original" THEN Mul(val, rate) ELSE val
        intermediatePrice == Mul(newMrp, Div(Hundred, Fin(105, 1)))
        finalTradePrice == Mul(intermediatePrice, Fin(80, 100))
        gstAmount == Mul(finalTradePrice, Fin(5, 100))
    IN  [ label |-> label,
          reductionPercent |-> reductionPercent,
          inputMrp |-> originalMrp,
          newMrp |-> newMrp,
          intermediateTradePrice |-> intermediatePrice,
          finalTradePrice |-> finalTradePrice,
          gstAmount |-> gstAmount ]

processRow(val, reductionPercent, label, mode) ==
    LET rate == Sub(One, Div(reductionPercent, Hundred))
        originalMrp == IF mode = "original" THEN val ELSE Div(val, rate)
        newMrp == IF mode = "original" THEN Mul(val, rate) ELSE val
        intermediatePrice == Mul(newMrp, Div(Hundred, Fin(105, 1)))
        finalTradePrice == Mul(intermediatePrice, Fin(80, 100))
        gstAmount == Mul(finalTradePrice, Fin(5, 100))
    IN  [ label |-> label,
          reductionPercent |-> reductionPercent,
          inputMrp |-> originalMrp,
          newMrp |-> newMrp,
          intermediateTradePrice |-> intermediatePrice,
          finalTradePrice |-> finalTradePrice,
          gstAmount |-> gstAmount ]

\* the value calculate() hands to setResults
calculate(amount, mode) ==
    [ row12 |-> processRow(amount, Rule12Percent, "12% GST Rule", mode),
      row18 |-> processRow(amount, Rule18Percent, "18% GST Rule", mode) ]

\* The body of the useEffect on [mrpInput, calculationMode], for the parsed number
\* num: the results and the analysis text it leaves, given the analysis text
\* before it ran.
EffectOn(num, mode, analysis) ==
    IF ~isNaN(num) /\ GtZero(num)
    THEN [results |-> calculate(num, mode), aiAnalysis |-> <<>>]
    ELSE [results |-> Null, aiAnalysis |-> analysis]

Recalculate(text, mode, analysis) == EffectOn(parseFloat(text), mode, analysis)

\* ------------------------------------------------------------------------
\* JavaScript values carried by a tool call's arguments
\* ------------------------------------------------------------------------

JsNumber(x) == [t |-> "number", v |-> x]
JsString(s) == [t |-> "string", v |-> s]
JsUndefined == [t |-> "undefined"]

\* v.toString() throws a TypeError for undefined and null
ToStringThrows(v) == v.t \in {"undefined", "null"}

\* v.toString() for a number or a string
ToStringOf(v) == IF v.t = "number" THEN NumberToString(v.v) ELSE v.v

OriginalText == <<"o", "r", "i", "g", "i", "n", "a", "l">>
NewText == <<"n", "e", "w">>

\* ------------------------------------------------------------------------
\* Bounds
\* ------------------------------------------------------------------------

\* start attempts of the voice session per behaviour: in the session life cycle
\* alone (SpecVoice), and beside the calculator and the tool calls (Spec)
MaxAttempts == 2
MaxToolAttempts == 1
\* function calls received over all tool-call messages of a behaviour
MaxCallIds == 2

\* ------------------------------------------------------------------------
\* State
\* ------------------------------------------------------------------------

VARIABLES
    mrpInput,               \* useState<string>('100')
    calculationMode,        \* useState<'original' | 'new'>
    results,                \* useState<CalculationResult | null>
    aiAnalysis,             \* useState<string>('')
    rendered,               \* the state the last committed render read
    updated,                \* App was rendered again since it was mounted
    effect,                 \* the useEffect of lines 66-73 of the last committed
                            \* render: "pending" (it is due) or "done"
    hasApiKey,              \* process.env.API_KEY is set
    isLiveActive,           \* useState(false)
    isAiSpeaking,           \* useState(false)
    audioContextRef,        \* refs: 0 is null, i > 0 the handle that start attempt i made
    inputAudioContextRef,
    sessionRef,
    mediaStreamRef,
    nextStartTimeRef,
    sourcesRef,
    attempts,               \* one record per call of toggleLive that started a session
    received,               \* function calls delivered so far; the i-th has id i
    acks,                   \* ids of the tool responses sent, in order
    scheduled,              \* the source.start(startTime) calls so far, in order
    halted,                 \* sources stopped by stopAudio whose ended event is due
    decoding,               \* the onmessage call suspended at await decodeAudioData
                            \* (line 287): its socket, its ctx and its buffer, or Null
    captured,               \* the last onaudioprocess event: samples, PCM, sent or not
    isLoadingAi,            \* useState<boolean>(false)
    pending,                \* the generateAnalysis call that handleAiAnalysis awaits
    teardownLog             \* what the last exit of a session released, in order

inputVars == <<mrpInput, calculationMode, results, aiAnalysis, rendered, updated, effect>>
refVars == <<audioContextRef, inputAudioContextRef, sessionRef, mediaStreamRef>>
playVars == <<nextStartTimeRef, sourcesRef, isAiSpeaking, scheduled, halted, decoding>>
toolVars == <<received, acks>>
analysisVars == <<isLoadingAi, pending>>
vars == <<inputVars, hasApiKey, isLiveActive, refVars, playVars, attempts, toolVars, captured, analysisVars, teardownLog>>

\* AudioContext.currentTime of a context that was just constructed
FreshContextTime == 0

\* What a start attempt holds.
\*   pc      where its toggleLive call stands: "awaitMedia" (line 211),
\*           "awaitConnect" (line 329), "done", "failed" (the catch of line 331)
\*   inCtx, outCtx   the two AudioContexts: "open" | "closed"
\*   mic     the MediaStream of getUserMedia: "none" | "live" | "stopped"
\*   sess    the socket of ai.live.connect: "none" | "connecting" | "open" |
\*           "closing" (close() called or an error reported; its close event is
\*           still to come) | "closed"
\*   stopReq a stop request (toggleLive while isLiveActive) was issued for it
\*   time    outputCtx.currentTime, in frames of the playback sample rate
\*   alerted the alert of line 334 was shown for it
NewAttempt ==
    [pc |-> "awaitMedia", inCtx |-> "open", outCtx |-> "open", mic |-> "none",
     sess |-> "none", stopReq |-> FALSE, time |-> FreshContextTime, alerted |-> FALSE]

T(n) == NumberToString(Fin(n, 1))

\* values of the input field that the user's edits propose
ManualTexts == { <<>>, T(100), <<"1", ".", "5">>, <<".">>, <<"0">>, <<"1", "2", "a">> }

\* what the state hooks of App hold once every queued update is applied
AppState ==
    [mrpInput |-> mrpInput, calculationMode |-> calculationMode, results |-> results,
     aiAnalysis |-> aiAnalysis, isLiveActive |-> isLiveActive,
     isAiSpeaking |-> isAiSpeaking, isLoadingAi |-> isLoadingAi]

\* the dependencies [mrpInput, calculationMode] of the last committed render
renderedDeps == <<rendered.mrpInput, rendered.calculationMode>>

Init ==
    /\ mrpInput = <<"1", "0", "0">>
    /\ calculationMode = "original"
    /\ results = Null
    /\ aiAnalysis = <<>>
    /\ effect = "pending"
    /\ updated = FALSE
    /\ hasApiKey \in BOOLEAN
    /\ isLiveActive = FALSE
    /\ isAiSpeaking = FALSE
    /\ audioContextRef = 0
    /\ inputAudioContextRef = 0
    /\ sessionRef = 0
    /\ mediaStreamRef = 0
    /\ nextStartTimeRef = 0
    /\ sourcesRef = {}
    /\ attempts = <<>>
    /\ received = 0
    /\ acks = <<>>
    /\ scheduled = <<>>
    /\ halted = 0
    /\ decoding = Null
    /\ captured = Null
    /\ isLoadingAi = FALSE
    /\ pending = Null
    /\ teardownLog = <<>>
    /\ rendered = AppState

\* ------------------------------------------------------------------------
\* Input: manual edit, clear, mode buttons
\* ------------------------------------------------------------------------

voiceVars == <<hasApiKey, isLiveActive, refVars, playVars, attempts, toolVars, captured, teardownLog>>

\* the effect's two setters
SetEffect(r) ==
    /\ results' = r.results
    /\ aiAnalysis' = r.aiAnalysis

\* The effect of lines 66-73 runs for the committed render: it reads the
\* mrpInput and the calculationMode of that render.  It runs after the first
\* render and after every render that changed one of the two.
useEffect ==
    /\ effect = "pending"
    /\ SetEffect(Recalculate(rendered.mrpInput, rendered.calculationMode, aiAnalysis))
    /\ effect' = "done"
    /\ UNCHANGED <<mrpInput, calculationMode, rendered, updated, voiceVars, analysisVars>>

\* an update is queued that no render has applied
Stale == AppState # rendered

\* React renders App in a task of its own after setters were called outside a
\* React event (the effect, a socket callback, a promise continuation): the
\* render applies every queued update, is committed, and its effect is due when
\* [mrpInput, calculationMode] differ from those of the render before.  An
\* effect that is still due runs before the render starts.
render ==
    /\ effect = "done"
    /\ Stale
    /\ rendered' = AppState
    /\ updated' = TRUE
    /\ effect' = IF <<mrpInput, calculationMode>> # renderedDeps THEN "pending" ELSE "done"
    /\ UNCHANGED <<mrpInput, calculationMode, results, aiAnalysis, voiceVars, analysisVars>>

\* what an effect that is still due leaves when it is flushed
Flushed ==
    IF effect = "done" THEN [results |-> results, aiAnalysis |-> aiAnalysis]
    ELSE Recalculate(rendered.mrpInput, rendered.calculationMode, aiAnalysis)

\* The render of a React event whose setters leave `next` of the state the last
\* render read.  React drops a setter called with the value the state has only
\* while the component has no update behind it: on the mounted App, before its
\* first update.  After that the setter schedules a render even when it changes
\* nothing.  An effect that is still due is flushed before the render starts,
\* App is rendered with the updates of the event (the updates queued outside
\* React events wait for their own render, the results that an effect set among
\* them), and the effect of lines 66-73 runs when [mrpInput, calculationMode]
\* changed, all before the event returns.
SyncRender(next) ==
    IF ~updated /\ ~Stale /\ next = rendered
    THEN UNCHANGED <<results, aiAnalysis, rendered, updated, effect>>
    ELSE /\ rendered' = next
         /\ updated' = TRUE
         /\ effect' = "done"
         /\ SetEffect(IF <<next.mrpInput, next.calculationMode>> # renderedDeps
                      THEN Recalculate(next.mrpInput, next.calculationMode,
                                       Flushed.aiAnalysis)
                      ELSE Flushed)

handleInputChange(value) ==
    /\ IF value = <<>> \/ MatchesDecimalPattern(value)
       THEN /\ mrpInput' = value
            /\ SyncRender([rendered EXCEPT !.mrpInput = value])
            /\ UNCHANGED calculationMode
       ELSE UNCHANGED inputVars
    /\ UNCHANGED <<voiceVars, analysisVars>>

\* the "Clear input" button, rendered while the mrpInput of the render is not
\* empty
clearInput ==
    /\ rendered.mrpInput # <<>>
    /\ mrpInput' = <<>>
    /\ SyncRender([rendered EXCEPT !.mrpInput = <<>>])
    /\ UNCHANGED <<calculationMode, voiceVars, analysisVars>>

\* the two mode buttons
setCalculationModeClick(m) ==
    /\ calculationMode' = m
    /\ SyncRender([rendered EXCEPT !.calculationMode = m])
    /\ UNCHANGED <<mrpInput, voiceVars, analysisVars>>

\* ------------------------------------------------------------------------
\* Voice session: stopAudio, toggleLive and its asynchronous continuations
\* ------------------------------------------------------------------------

\* WebSocket.close(): an open or connecting socket starts closing
CloseSocket(st) == IF st \in {"connecting", "open"} THEN "closing" ELSE st

\* The handles after stopAudio() released what the four refs point to.
Released(atts) ==
    [i \in DOMAIN atts |->
        [atts[i] EXCEPT
            !.mic = IF mediaStreamRef = i THEN "stopped" ELSE @,
            !.inCtx = IF inputAudioContextRef = i THEN "closed" ELSE @,
            !.outCtx = IF audioContextRef = i THEN "closed" ELSE @,
            !.sess = IF sessionRef = i THEN CloseSocket(@) ELSE @]]

\* the releases of stopAudio, in the order of lines 95-112: each of the four
\* refs if it is set, then the scheduled sources
TeardownOrder ==
    (IF mediaStreamRef # 0 THEN <<"mediaStream">> ELSE <<>>)
    \o (IF inputAudioContextRef # 0 THEN <<"inputAudioContext">> ELSE <<>>)
    \o (IF audioContextRef # 0 THEN <<"audioContext">> ELSE <<>>)
    \o (IF sessionRef # 0 THEN <<"session">> ELSE <<>>)
    \o <<"sources">>

\* stopAudio(), run on the handles atts
stopAudio(atts) ==
    /\ attempts' = Released(atts)
    /\ teardownLog' = TeardownOrder
    /\ mediaStreamRef' = 0
    /\ inputAudioContextRef' = 0
    /\ audioContextRef' = 0
    /\ sessionRef' = 0
    /\ halted' = halted + Cardinality(sourcesRef)
    /\ sourcesRef' = {}
    /\ isLiveActive' = FALSE
    /\ isAiSpeaking' = FALSE
    /\ UNCHANGED <<nextStartTimeRef, scheduled, decoding>>

\* toggleLive of a render that read isLiveActive as true (lines 157-159): a stop
\* request.  The click is a React event: App is rendered before it returns.
toggleLiveStop ==
    /\ rendered.isLiveActive
    /\ stopAudio(IF attempts = <<>> THEN attempts
                 ELSE [attempts EXCEPT ![Len(attempts)].stopReq = TRUE])
    /\ SyncRender([rendered EXCEPT !.isLiveActive = FALSE, !.isAiSpeaking = FALSE])
    /\ UNCHANGED <<mrpInput, calculationMode, hasApiKey, toolVars, captured, analysisVars>>

\* toggleLive that goes on to the setup of lines 167-176 without a credential
toggleLiveNoKeyUnchecked ==
    /\ ~rendered.isLiveActive
    /\ ~hasApiKey
    /\ Len(attempts) < MaxToolAttempts
    /\ isLiveActive' = TRUE
    /\ SyncRender([rendered EXCEPT !.isLiveActive = TRUE])
    /\ attempts' = Append(attempts, NewAttempt)
    /\ inputAudioContextRef' = Len(attempts) + 1
    /\ audioContextRef' = Len(attempts) + 1
    /\ nextStartTimeRef' = FreshContextTime
    /\ UNCHANGED <<mrpInput, calculationMode, hasApiKey, sessionRef, mediaStreamRef, sourcesRef,
                   isAiSpeaking, scheduled, halted, decoding, toolVars, captured,
                   analysisVars, teardownLog>>

\* toggleLive without a credential: the alert, and nothing else
toggleLiveNoKey ==
    /\ ~rendered.isLiveActive
    /\ ~hasApiKey
    /\ UNCHANGED vars

\* toggleLive of a render that read isLiveActive as false, up to its first await
\* (lines 167-211).  The click is a React event: App is rendered before it returns.
toggleLiveStart(limit) ==
    /\ ~rendered.isLiveActive
    /\ hasApiKey
    /\ Len(attempts) < limit
    /\ isLiveActive' = TRUE
    /\ SyncRender([rendered EXCEPT !.isLiveActive = TRUE])
    /\ attempts' = Append(attempts, NewAttempt)
    /\ inputAudioContextRef' = Len(attempts) + 1
    /\ audioContextRef' = Len(attempts) + 1
    /\ nextStartTimeRef' = FreshContextTime
    /\ UNCHANGED <<mrpInput, calculationMode, hasApiKey, sessionRef, mediaStreamRef, sourcesRef,
                   isAiSpeaking, scheduled, halted, decoding, toolVars, captured,
                   analysisVars, teardownLog>>

toggleLive(limit) == toggleLiveStop \/ toggleLiveNoKey \/ toggleLiveStart(limit)

\* getUserMedia resolves: lines 212-214, up to the await of line 329
getUserMediaResolved(a) ==
    /\ a \in DOMAIN attempts
    /\ attempts[a].pc = "awaitMedia"
    /\ mediaStreamRef' = a
    /\ attempts' = [attempts EXCEPT ![a].mic = "live", ![a].sess = "connecting",
                                    ![a].pc = "awaitConnect"]
    /\ UNCHANGED <<inputVars, hasApiKey, isLiveActive, audioContextRef,
                   inputAudioContextRef, sessionRef, playVars, toolVars, captured, analysisVars, teardownLog>>

\* getUserMedia rejects (no device, permission denied): the catch of lines 331-335
getUserMediaRejected(a) ==
    /\ a \in DOMAIN attempts
    /\ attempts[a].pc = "awaitMedia"
    /\ stopAudio([attempts EXCEPT ![a].pc = "failed", ![a].alerted = TRUE])
    /\ UNCHANGED <<inputVars, hasApiKey, toolVars, captured, analysisVars>>

\* The socket opens: callbacks.onopen runs, ai.live.connect resolves and toggleLive
\* resumes at line 329.
connectResolved(a) ==
    /\ a \in DOMAIN attempts
    /\ attempts[a].pc = "awaitConnect"
    /\ attempts[a].sess = "connecting"
    /\ sessionRef' = a
    /\ attempts' = [attempts EXCEPT ![a].sess = "open", ![a].pc = "done"]
    /\ UNCHANGED <<inputVars, hasApiKey, isLiveActive, audioContextRef,
                   inputAudioContextRef, mediaStreamRef, playVars, toolVars, captured, analysisVars, teardownLog>>

\* ai.live.connect rejects: the catch of lines 331-335
connectRejected(a) ==
    /\ a \in DOMAIN attempts
    /\ attempts[a].pc = "awaitConnect"
    /\ attempts[a].sess = "connecting"
    /\ stopAudio([attempts EXCEPT ![a].sess = "closed", ![a].pc = "failed",
                                   ![a].alerted = TRUE])
    /\ UNCHANGED <<inputVars, hasApiKey, toolVars, captured, analysisVars>>

\* callbacks.onerror of attempt a's socket (lines 317-320); the socket's close
\* event follows
onerror(a) ==
    /\ a \in DOMAIN attempts
    /\ attempts[a].sess \in {"connecting", "open"}
    /\ stopAudio([attempts EXCEPT ![a].sess = "closing"])
    /\ UNCHANGED <<inputVars, hasApiKey, toolVars, captured, analysisVars>>

\* callbacks.onclose of attempt a's socket (lines 313-316): the remote side closed
\* it, or close() or an error did
onclose(a) ==
    /\ a \in DOMAIN attempts
    /\ attempts[a].sess \in {"open", "closing"}
    /\ attempts' = [attempts EXCEPT ![a].sess = "closed"]
    /\ isLiveActive' = FALSE
    /\ teardownLog' = <<>>
    /\ UNCHANGED <<inputVars, hasApiKey, refVars, playVars, toolVars, captured, analysisVars>>

\* ------------------------------------------------------------------------
\* Tool calls (callbacks.onmessage, lines 247-280)
\* ------------------------------------------------------------------------

\* a function call of a tool-call message: its name, whether it has fc.args, and
\* the two properties of fc.args the handler reads (JsUndefined when absent)
UpdateMrpCall(v) ==
    [name |-> "updateMrp", args |-> TRUE, amount |-> v, mode |-> JsUndefined]
SwitchModeCall(v) ==
    [name |-> "switchMode", args |-> TRUE, amount |-> JsUndefined, mode |-> v]
OtherCall(n) == [name |-> n, args |-> TRUE, amount |-> JsUndefined, mode |-> JsUndefined]
\* the call named n without fc.args (args is optional in a function call)
NoArgsCall(n) == [name |-> n, args |-> FALSE, amount |-> JsUndefined, mode |-> JsUndefined]

\* The handler ends with a TypeError at this call: fc.args.amount (line 251) or
\* fc.args.mode (line 265) is read of a call without fc.args, or
\* newAmount.toString() (line 253) is called on undefined or null.
CallThrows(fc) ==
    \/ fc.name \in {"updateMrp", "switchMode"} /\ ~fc.args
    \/ fc.name = "updateMrp" /\ ToStringThrows(fc.amount)

IsModeName(v) == v = JsString(OriginalText) \/ v = JsString(NewText)

\* ModeOf with its branches swapped
ModeOfSwapped(v) == IF v = JsString(OriginalText) THEN "new" ELSE "original"

ModeOf(v) == IF v = JsString(OriginalText) THEN "original" ELSE "new"

\* One iteration of the loop of line 250 on a call that does not throw: st holds
\* the text and the mode set so far and the ids of the responses queued so far.
HandleCall(fc, id, st) ==
    IF fc.name = "updateMrp"
    THEN [st EXCEPT !.text = ToStringOf(fc.amount), !.acked = Append(@, id)]
    ELSE IF fc.name = "switchMode" /\ IsModeName(fc.mode)
    THEN [st EXCEPT !.mode = ModeOf(fc.mode), !.acked = Append(@, id)]
    ELSE st

\* the loop of line 250 over calls, the first of which has the id `id`
RECURSIVE HandleCalls(_, _, _)
HandleCalls(calls, id, st) ==
    IF calls = <<>> \/ CallThrows(Head(calls)) THEN st
    ELSE HandleCalls(Tail(calls), id + 1, HandleCall(Head(calls), id, st))

\* The responses queued by sessionPromise.then(...) go out on attempt a's socket;
\* a socket that is no longer open drops them.
SendToolResponses(a, ids) ==
    acks' = IF attempts[a].sess = "open" THEN acks \o ids ELSE acks

\* The setters were called from a socket callback: React renders later.
ApplyToolCalls(a, n, st) ==
    /\ mrpInput' = st.text
    /\ calculationMode' = st.mode
    /\ UNCHANGED <<results, aiAnalysis, rendered, updated, effect>>
    /\ received' = received + n
    /\ SendToolResponses(a, st.acked)

\* callbacks.onmessage of attempt a's socket, which has opened, for a tool-call
\* message.  A message read from the socket before it closed may still be
\* delivered while it closes.
onmessage(a, calls) ==
    /\ a \in DOMAIN attempts
    /\ attempts[a].pc = "done"
    /\ attempts[a].sess \in {"open", "closing"}
    /\ received + Len(calls) <= MaxCallIds
    /\ ApplyToolCalls(a, Len(calls),
                      HandleCalls(calls, received + 1,
                                  [text |-> mrpInput, mode |-> calculationMode,
                                   acked |-> <<>>]))
    /\ UNCHANGED <<hasApiKey, isLiveActive, refVars, playVars, attempts, captured, analysisVars, teardownLog>>

\* numbers the remote side sends as the amount (1e999 is read as Infinity)
ToolNumbers == { Fin(250, 1), Fin(-5, 2), Inf(1) }

CallPool ==
    { UpdateMrpCall(JsNumber(x)) : x \in ToolNumbers }
    \cup { UpdateMrpCall(JsString(<<"a", "b", "c">>)), UpdateMrpCall(JsUndefined),
           UpdateMrpCall(JsString(<<"\t", "5">>)), NoArgsCall("switchMode"),
           SwitchModeCall(JsString(NewText)), SwitchModeCall(JsString(OriginalText)),
           SwitchModeCall(JsString(<<"N", "e", "w">>)), OtherCall("resetAll") }

\* the calls that messages of two calls are made of
PairPool ==
    { UpdateMrpCall(JsNumber(Fin(250, 1))), UpdateMrpCall(JsUndefined),
      SwitchModeCall(JsString(NewText)), OtherCall("resetAll"),
      NoArgsCall("switchMode") }

\* tool-call messages: one call, or two
Messages == { <<c>> : c \in CallPool } \cup { <<c, d>> : c \in PairPool, d \in PairPool }

\* toggleLive that starts no session after the first
toggleLiveOnce ==
    \/ toggleLiveStop
    \/ toggleLiveNoKey
    \/ attempts = <<>> /\ toggleLiveStart(MaxToolAttempts)

\* the calculator beside the first voice session and its tool calls (sessions
\* one after another are in SpecVoice)
Next ==
    \/ useEffect
    \/ render
    \/ \E v \in ManualTexts : handleInputChange(v)
    \/ clearInput
    \/ \E m \in Modes : setCalculationModeClick(m)
    \/ toggleLiveOnce
    \/ \E a \in 1..MaxToolAttempts :
        \/ getUserMediaResolved(a)
        \/ getUserMediaRejected(a)
        \/ connectResolved(a)
        \/ connectRejected(a)
        \/ onerror(a)
        \/ onclose(a)
        \/ \E msg \in Messages : onmessage(a, msg)

Spec == Init /\ [][Next]_vars

\* ------------------------------------------------------------------------
\* Audio output (callbacks.onmessage, lines 282-311) and the playback clock
\* ------------------------------------------------------------------------

MaxTime == 2
MaxBuffers == 3

\* sizes, in bytes, of the audio payloads the remote side sends
AudioBytes == {2, 3, 4}

\* new Int16Array(data.buffer) of line 123 throws a RangeError when the byte
\* length is not a multiple of 2
DecodeThrows(bytes) == bytes % 2 # 0

\* dataInt16.length / numChannels of line 124, for one channel
FrameCount(bytes) == bytes \div 2

Max(x, y) == IF x >= y THEN x ELSE y

\* buffer.duration of the AudioBuffer that decodeAudioData makes of a payload of
\* `frames` 16-bit samples, in frames of the playback sample rate
BufferDuration(frames) == frames

\* StartTime that ignores the clock
StartTimeQueueOnly(now, nextStartTime) == nextStartTime

\* StartTime that ignores the buffers scheduled before
StartTimeClockOnly(now, nextStartTime) == now

\* startTime of line 300
StartTime(now, nextStartTime) == Max(now, nextStartTime)

\* SchedulePlayback that advances nextStartTime from the clock instead of startTime
SchedulePlaybackFromNow(ctx, frames, startTime) ==
    /\ scheduled' = Append(scheduled, [ctx |-> ctx, at |-> attempts[ctx].time,
                                       start |-> startTime,
                                       duration |-> BufferDuration(frames)])
    /\ nextStartTimeRef' = attempts[ctx].time + BufferDuration(frames)
    /\ sourcesRef' = sourcesRef \cup {Len(scheduled) + 1}
    /\ UNCHANGED <<isAiSpeaking, halted>>

\* lines 294-310 for one buffer, played on the context ctx: the source is the
\* index of its source.start call
SchedulePlayback(ctx, frames, startTime) ==
    /\ scheduled' = Append(scheduled, [ctx |-> ctx, at |-> attempts[ctx].time,
                                       start |-> startTime,
                                       duration |-> BufferDuration(frames)])
    /\ nextStartTimeRef' = startTime + BufferDuration(frames)
    /\ sourcesRef' = sourcesRef \cup {Len(scheduled) + 1}
    /\ UNCHANGED <<isAiSpeaking, halted>>

\* callbacks.onmessage of attempt a's socket for a server-content message whose
\* first part carries `bytes` bytes of audio (such a message has no toolCall),
\* up to the await of line 287.  decodeAudioData runs to its end inside the call:
\* when it throws, setIsAiSpeaking(true) of line 285 has run and nothing follows;
\* when it returns, the handler is suspended with ctx of line 286 and the buffer.
onmessageAudio(a, bytes) ==
    /\ a \in DOMAIN attempts
    /\ attempts[a].pc = "done"
    /\ attempts[a].sess \in {"open", "closing"}
    /\ Len(scheduled) < MaxBuffers
    /\ decoding = Null
    /\ IF audioContextRef = 0 THEN UNCHANGED playVars
       ELSE /\ isAiSpeaking' = TRUE
            /\ decoding' = IF DecodeThrows(bytes) THEN Null
                           ELSE [socket |-> a, ctx |-> audioContextRef,
                                 frames |-> FrameCount(bytes)]
            /\ UNCHANGED <<nextStartTimeRef, sourcesRef, scheduled, halted>>
    /\ UNCHANGED <<inputVars, hasApiKey, isLiveActive, refVars, attempts, toolVars, captured, analysisVars, teardownLog>>

\* The suspended handler resumes (lines 294-310): it schedules the buffer on the
\* context it read before the await, whatever audioContextRef is now.
onmessageAudioResumed ==
    /\ decoding # Null
    /\ SchedulePlayback(decoding.ctx, decoding.frames,
                        StartTime(attempts[decoding.ctx].time, nextStartTimeRef))
    /\ decoding' = Null
    /\ UNCHANGED <<inputVars, hasApiKey, isLiveActive, refVars, attempts, toolVars, captured, analysisVars, teardownLog>>

\* The continuation of a suspended handler is a microtask: it runs before the
\* next task (a click, a timer, a socket event, a render).
Idle == decoding = Null

\* What the caller of the suspended callback can still do before it returns to
\* the event loop: report an error or the close of the same socket.
FromCaller(a) == decoding # Null /\ decoding.socket = a

\* Time passes: the clock of every open output context advances by one frame.
advanceClock ==
    /\ \E i \in DOMAIN attempts : attempts[i].outCtx = "open"
    /\ \A i \in DOMAIN attempts : attempts[i].outCtx = "open" => attempts[i].time < MaxTime
    /\ attempts' = [i \in DOMAIN attempts |->
                      [attempts[i] EXCEPT !.time = IF attempts[i].outCtx = "open"
                                                   THEN @ + 1 ELSE @]]
    /\ UNCHANGED <<inputVars, hasApiKey, isLiveActive, refVars, playVars, toolVars, captured, analysisVars, teardownLog>>

\* lines 306-309
SourceEnded(remaining) ==
    /\ sourcesRef' = remaining
    /\ isAiSpeaking' = IF remaining = {} THEN FALSE ELSE isAiSpeaking

\* source.onended of a source that played to its end
onended(src) ==
    /\ src \in sourcesRef
    /\ attempts[scheduled[src].ctx].time >= scheduled[src].start + scheduled[src].duration
    /\ SourceEnded(sourcesRef \ {src})
    /\ UNCHANGED <<inputVars, hasApiKey, isLiveActive, refVars, nextStartTimeRef,
                   scheduled, halted, decoding, attempts, toolVars, captured, analysisVars,
                   teardownLog>>

\* source.onended of a source that stopAudio stopped, if the closed context still
\* delivers the event
onendedHalted ==
    /\ halted > 0
    /\ halted' = halted - 1
    /\ SourceEnded(sourcesRef)
    /\ UNCHANGED <<inputVars, hasApiKey, isLiveActive, refVars, nextStartTimeRef,
                   scheduled, decoding, attempts, toolVars, captured, analysisVars,
                   teardownLog>>

NextAudio ==
    \/ Idle /\ useEffect
    \/ Idle /\ render
    \/ Idle /\ toggleLiveOnce
    \/ \E a \in 1..MaxToolAttempts :
        \/ Idle /\ getUserMediaResolved(a)
        \/ Idle /\ connectResolved(a)
        \/ (Idle \/ FromCaller(a)) /\ onerror(a)
        \/ (Idle \/ FromCaller(a)) /\ onclose(a)
        \/ \E bytes \in AudioBytes : onmessageAudio(a, bytes)
    \/ onmessageAudioResumed
    \/ Idle /\ advanceClock
    \/ \E src \in 1..MaxBuffers : Idle /\ onended(src)
    \/ Idle /\ onendedHalted

SpecAudio == Init /\ [][NextAudio]_vars

\* ------------------------------------------------------------------------
\* Audio capture (processor.onaudioprocess, lines 223-242) and decodeAudioData
\* ------------------------------------------------------------------------

\* the factor of lines 229 and 130
PcmScale == 32768

\* the integer part of a finite number
Trunc(x) == IF x.n >= 0 THEN x.n \div x.d ELSE -((-x.n) \div x.d)

\* an integer modulo 2^16, as a signed 16-bit value
Wrap16(i) == ((i + 32768) % 65536) - 32768

\* the value an Int16Array element takes when x is assigned to it
ToInt16(x) == IF x.k = "fin" THEN Wrap16(Trunc(x)) ELSE 0

\* the loop of lines 228-230
EncodePcm(inputData) ==
    [i \in DOMAIN inputData |-> ToInt16(Mul(inputData[i], Fin(PcmScale, 1)))]

\* decodeAudioData on the 16-bit samples of the payload: the channel data of the
\* buffer, channels numbered from 0
decodeAudioData(dataInt16, numChannels) ==
    [channel \in 0..(numChannels - 1) |->
        [i \in 1..(Len(dataInt16) \div numChannels) |->
            Div(Fin(dataInt16[(i - 1) * numChannels + channel + 1], 1), Fin(PcmScale, 1))]]

\* processor.onaudioprocess of attempt a, for the samples inputData of channel 0;
\* a socket that is not open drops what is sent on it
onaudioprocess(a, inputData) ==
    /\ a \in DOMAIN attempts
    /\ attempts[a].pc = "done"
    /\ attempts[a].inCtx = "open"
    /\ captured' = [inputData |-> inputData, pcmData |-> EncodePcm(inputData),
                    sent |-> attempts[a].sess = "open"]
    /\ UNCHANGED <<inputVars, hasApiKey, isLiveActive, refVars, playVars, attempts, toolVars,
                   analysisVars, teardownLog>>

MaxChunk == 2

\* samples the microphone delivers: multiples of 1/4 from -1 to 1, the largest
\* values below full scale, and values below one step of the 16-bit scale
Samples ==
    { Fin(k, 4) : k \in -4..4 }
    \cup { Fin(32767, 32768), Fin(-32767, 32768), Fin(1, 65536), Fin(-1, 65536) }

Chunks == UNION { [1..n -> Samples] : n \in 1..MaxChunk }

NextPcm ==
    \/ useEffect
    \/ render
    \/ toggleLive(MaxToolAttempts)
    \/ \E a \in 1..MaxToolAttempts :
        \/ getUserMediaResolved(a)
        \/ connectResolved(a)
        \/ \E chunk \in Chunks : onaudioprocess(a, chunk)

SpecPcm == Init /\ [][NextPcm]_vars

\* ------------------------------------------------------------------------
\* The analysis request (handleAiAnalysis, lines 83-90, and generateAnalysis)
\* ------------------------------------------------------------------------

\* the text of n hundredths
Hundredths(neg, n) ==
    (IF neg THEN <<"-">> ELSE <<>>) \o NatToText(n \div 100) \o <<".">> \o PadDigits(n % 100, 2)

\* Number.prototype.toFixed(2) of a number below 10^21: the texts it can write
\* for the double that stands for x.  It writes the sign, then the integer n for
\* which n / 100 is closest to the double (the larger n of two).  When x is no
\* nearer to one n than to the other, the double, which differs from x by its
\* rounding error, may be nearer to either.
ToFixed2(x) ==
    IF x.k # "fin" THEN {NumberToString(x)}
    ELSE LET n == (200 * Abs(x.n) + x.d) \div (2 * x.d)
             tie == (200 * Abs(x.n) + x.d) % (2 * x.d) = 0
         IN  {Hundredths(x.n < 0, m) : m \in (IF tie THEN {n - 1, n} ELSE {n})}

\* The prompt of generateAnalysis (lines 16-30): the amount it names as the
\* Original MRP, as the template writes it, and for each of the three figures of
\* each rule the texts the template can write.
Prompt(data, mrp) ==
    [originalMrp |-> NumberToString(mrp),
     row12 |-> <<ToFixed2(data.row12.newMrp), ToFixed2(data.row12.finalTradePrice),
                 ToFixed2(data.row12.gstAmount)>>,
     row18 |-> <<ToFixed2(data.row18.newMrp), ToFixed2(data.row18.finalTradePrice),
                 ToFixed2(data.row18.gstAmount)>>]

\* what generateAnalysis returns without a credential (lines 11-14)
MissingKeyText == "API Key is missing. Please provide an API key to generate an analysis."

\* How a request ends: the text of the response, the text that stands for an
\* empty response (line 37), or the text of the catch (line 40).
Replies == {"response.text", "Could not generate analysis.",
            "An error occurred while communicating with the AI service."}

\* The call generateAnalysis(data, mrp) until it returns: without a credential no
\* request is made and the call returns the text of line 13; with one, the prompt
\* is sent and the call returns how the request ends.
generateAnalysis(data, mrp) ==
    IF ~hasApiKey
    THEN [data |-> data, mrp |-> mrp, prompt |-> Null, returns |-> {MissingKeyText}]
    ELSE [data |-> data, mrp |-> mrp, prompt |-> Prompt(data, mrp), returns |-> Replies]

\* the string generateAnalysis returns: what the service said of the prompt
AnalysisText(call, reply) == [reply |-> reply, prompt |-> call.prompt, data |-> call.data]

\* handleAiAnalysis up to its await (lines 84-87); results and mrpInput are
\* those of the render that made the handler.  The click is a React event: App
\* is rendered with isLoadingAi before it returns.
handleAiAnalysis ==
    /\ IF rendered.results = Null \/ ~hasApiKey
       THEN UNCHANGED <<analysisVars, results, aiAnalysis, rendered, updated, effect>>
       ELSE /\ isLoadingAi' = TRUE
            /\ pending' = generateAnalysis(rendered.results, parseFloat(rendered.mrpInput))
            /\ SyncRender([rendered EXCEPT !.isLoadingAi = TRUE])
    /\ UNCHANGED <<mrpInput, calculationMode, voiceVars>>

\* the "Generate Report" button: rendered with a snapshot and a credential (lines
\* 459 and 604), disabled when the render read isLoadingAi as true (line 607)
analysisButtonClick ==
    /\ rendered.results # Null
    /\ hasApiKey
    /\ ~rendered.isLoadingAi
    /\ handleAiAnalysis

\* generateAnalysis returns and handleAiAnalysis resumes (lines 88-89)
analysisReturned(reply) ==
    /\ pending # Null
    /\ reply \in pending.returns
    /\ aiAnalysis' = AnalysisText(pending, reply)
    /\ isLoadingAi' = FALSE
    /\ pending' = Null
    /\ UNCHANGED <<mrpInput, calculationMode, results, rendered, updated, effect, voiceVars>>

\* the calculator, the analysis request and the voice button
NextAnalysis ==
    \/ useEffect
    \/ render
    \/ \E v \in ManualTexts : handleInputChange(v)
    \/ clearInput
    \/ \E m \in Modes : setCalculationModeClick(m)
    \/ analysisButtonClick
    \/ \E reply \in Replies : analysisReturned(reply)
    \/ toggleLive(MaxToolAttempts)

SpecAnalysis == Init /\ [][NextAnalysis]_vars

\* ------------------------------------------------------------------------
\* Manual edits, on every short text
\* ------------------------------------------------------------------------

MaxEditLen == 3

\* the characters of the proposed texts
EditChars == {"1", "5", ".", "-"}

EditTexts == UNION { [1..n -> EditChars] : n \in 0..MaxEditLen }

\* the amount field shows the initial amount or is empty and no update is
\* queued: the texts of the wide ranges are typed over the initial amount or into
\* the cleared field, once App has rendered
FieldAtRest == ~Stale /\ rendered.mrpInput \in {<<>>, <<"1", "0", "0">>}

NextEdit ==
    \/ useEffect
    \/ render
    \/ \E v \in EditTexts : FieldAtRest /\ handleInputChange(v)
    \/ clearInput
    \/ \E m \in Modes : setCalculationModeClick(m)

SpecEdit == Init /\ [][NextEdit]_vars

\* ------------------------------------------------------------------------
\* The life cycle of the voice session alone
\* ------------------------------------------------------------------------

NextVoice ==
    \/ useEffect
    \/ render
    \/ toggleLive(MaxAttempts)
    \/ \E a \in 1..MaxAttempts :
        \/ getUserMediaResolved(a)
        \/ getUserMediaRejected(a)
        \/ connectResolved(a)
        \/ connectRejected(a)
        \/ onerror(a)
        \/ onclose(a)

SpecVoice == Init /\ [][NextVoice]_vars

\* ------------------------------------------------------------------------
\* The calculator alone, on a wide range of amounts
\* ------------------------------------------------------------------------

MaxWhole == 150
MaxCents == 50

\* amounts 1, 2, ..., MaxWhole and 0.01, 0.02, ..., MaxCents / 100
CalcAmounts == { Fin(k, 1) : k \in 1..MaxWhole } \cup { Fin(k, 100) : k \in 1..MaxCents }

CalcTexts == { NumberToString(x) : x \in CalcAmounts } \cup ManualTexts

NextCalc ==
    \/ useEffect
    \/ render
    \/ \E v \in CalcTexts : FieldAtRest /\ handleInputChange(v)
    \/ clearInput
    \/ \E m \in Modes : setCalculationModeClick(m)

SpecCalc == Init /\ [][NextCalc]_vars

\* ------------------------------------------------------------------------
\* What the claims speak of
\* ------------------------------------------------------------------------

Range(f) == { f[i] : i \in DOMAIN f }

Rows(res) == { res.row12, res.row18 }

\* 1 - reductionPercent/100, written as (100 - reductionPercent)/100
KeepFraction(r) == Div(Sub(Hundred, r), Hundred)

\* The chained derivation of a quote q from the amount a under the mode, stated
\* without the code's formulas for the downstream fields: each is pinned by a
\* product (x * 105 = newMrp * 100, ...).
QuoteFrom(q, a, mode) ==
    /\ IF mode = "original"
       THEN q.inputMrp = a /\ q.newMrp = Mul(a, KeepFraction(q.reductionPercent))
       ELSE q.newMrp = a /\ q.inputMrp = Div(a, KeepFraction(q.reductionPercent))
    /\ Mul(q.intermediateTradePrice, Fin(105, 1)) = Mul(q.newMrp, Hundred)
    /\ Mul(q.finalTradePrice, Hundred) = Mul(q.intermediateTradePrice, Fin(80, 1))
    /\ Mul(q.gstAmount, Hundred) = Mul(q.finalTradePrice, Fin(5, 1))

\* res is the snapshot of both rules for the amount a under the mode
SnapshotFrom(res, a, mode) ==
    /\ res # Null
    /\ res.row12.reductionPercent = Fin(625, 100)
    /\ res.row18.reductionPercent = Fin(1102, 100)
    /\ \A q \in Rows(res) : QuoteFrom(q, a, mode)

\* res is what recomputation leaves for the number a: the snapshot when a > 0,
\* none otherwise
RecomputedFor(res, a, mode) ==
    IF GtZero(a) THEN SnapshotFrom(res, a, mode) ELSE res = Null

\* attempt a's session is the Active one
Active(a) ==
    /\ a \in DOMAIN attempts
    /\ isLiveActive
    /\ sessionRef = a
    /\ attempts[a].sess = "open"

Count(seq, x) == Cardinality({ i \in DOMAIN seq : seq[i] = x })

\* recomputation has run for the amount text and the mode: the render that read
\* them is committed and its effect ran
Recomputed == effect = "done" /\ renderedDeps = <<mrpInput, calculationMode>>

\* ---- C1 ----------------------------------------------------------------
\* C1 (as claimed): once recomputation has run, a snapshot exists if and only if
\* the amount text parses to a finite number greater than 0.
C1_SnapshotIffFinitePositive ==
    Recomputed =>
        ((results # Null) <=> (isFinite(parseFloat(mrpInput)) /\ GtZero(parseFloat(mrpInput))))

\* ---- C2 ----------------------------------------------------------------
\* C2: every snapshot satisfies the chained derivation for both rules from the
\* parsed amount under the current mode, and original 100 gives newMrp 93.75,
\* trade price 500/7 = 71.428..., tax 25/7 = 3.571... under the 6.25% rule and
\* newMrp 88.98 under the 11.02% rule.
C2_ChainedDerivation ==
    /\ results # Null => SnapshotFrom(results, parseFloat(mrpInput), calculationMode)
    /\ (Recomputed /\ parseFloat(mrpInput) = Fin(100, 1) /\ calculationMode = "original") =>
          /\ results # Null
          /\ results.row12.newMrp = Fin(9375, 100)
          /\ results.row12.intermediateTradePrice = Fin(625, 7)
          /\ results.row12.finalTradePrice = Fin(500, 7)
          /\ results.row12.gstAmount = Fin(25, 7)
          /\ results.row18.newMrp = Fin(8898, 100)

\* an amount other than the initial one was entered as the new MRP and both rows
\* were derived from it: 120 / 0.9375 = 128
C2_Witness ==
    /\ calculationMode = "new"
    /\ mrpInput = <<"1", "2", "0">>
    /\ results # Null
    /\ results.row12.inputMrp = Fin(128, 1)

\* ---- C3 ----------------------------------------------------------------
\* C3: for each rule, feeding the newMrp computed in 'original' mode back in 'new'
\* mode gives the original amount again, and the same trade price and tax.
C3_RoundTrip ==
    (results # Null /\ calculationMode = "original") =>
        \A q \in Rows(results) :
            LET back == processRow(q.newMrp, q.reductionPercent, q.label, "new")
            IN  /\ back.newMrp = q.newMrp
                /\ back.inputMrp = parseFloat(mrpInput)
                /\ back.finalTradePrice = q.finalTradePrice
                /\ back.gstAmount = q.gstAmount

\* a fractional original amount whose reduced price is not the amount itself
C3_Witness ==
    /\ calculationMode = "original"
    /\ mrpInput = <<"0", ".", "3", "2">>
    /\ results # Null
    /\ results.row12.newMrp = Fin(3, 10)

\* ---- C4 ----------------------------------------------------------------
\* C4 (as claimed): in every state, a snapshot's two rows are both computed from
\* the current amount text and the current mode.
C4_SnapshotIsCurrent ==
    results # Null =>
        LET a == parseFloat(mrpInput)
            keep12 == Fin(9375, 10000)
            keep18 == Fin(8898, 10000)
        IN  IF calculationMode = "original"
            THEN /\ results.row12.inputMrp = a /\ results.row18.inputMrp = a
                 /\ results.row12.newMrp = Mul(a, keep12)
                 /\ results.row18.newMrp = Mul(a, keep18)
            ELSE /\ results.row12.newMrp = a /\ results.row18.newMrp = a
                 /\ results.row12.inputMrp = Div(a, keep12)
                 /\ results.row18.inputMrp = Div(a, keep18)

\* ---- C5 ----------------------------------------------------------------
IsNumericUpdate(fc) == fc.name = "updateMrp" /\ fc.amount.t = "number"

\* C5 (as claimed): while the session is Active, an updateMrp call with a
\* numeric amount n is answered by one response carrying its id; if no later
\* call of the message sets the amount, the amount text is the stringified n,
\* which reads as n; the call leaves the mode alone (the mode changes only when
\* the message also holds a switchMode call); and once recomputation has run for
\* the amount text and the mode, the snapshot is the one recomputed for them.
C5_UpdateAmount ==
    [][/\ \A a \in DOMAIN attempts : \A msg \in Messages :
            (Active(a) /\ onmessage(a, msg)) =>
                \A i \in DOMAIN msg :
                    IsNumericUpdate(msg[i]) =>
                        /\ Count(acks', received + i) = 1
                        /\ Count(acks, received + i) = 0
                        /\ (\A j \in DOMAIN msg : j > i => msg[j].name # "updateMrp") =>
                              /\ mrpInput' = NumberToString(msg[i].amount.v)
                              /\ parseFloat(mrpInput') = msg[i].amount.v
                        /\ (\A j \in DOMAIN msg : msg[j].name # "switchMode") =>
                              calculationMode' = calculationMode
       /\ Recomputed' => RecomputedFor(results', parseFloat(mrpInput'), calculationMode')
      ]_vars

C7_EveryCallAcknowledged ==
    \A id \in 1..received : Count(acks, id) = 1

\* ---- C8 ----------------------------------------------------------------
Malformed(fc) ==
    \/ fc.name = "updateMrp" /\ fc.amount.t # "number"
    \/ fc.name = "switchMode" /\ ~IsModeName(fc.mode)
    \/ fc.name \notin {"updateMrp", "switchMode"}

\* C8 (as claimed): a message whose calls are all malformed leaves the amount
\* text and the mode unchanged, and a malformed call does not keep the calls
\* after it from being handled.
C8_MalformedCallsIgnored ==
    [][\A a \in DOMAIN attempts : \A msg \in Messages :
          onmessage(a, msg) =>
              /\ (\A i \in DOMAIN msg : Malformed(msg[i])) =>
                     (mrpInput' = mrpInput /\ calculationMode' = calculationMode)
              /\ \A i \in DOMAIN msg :
                     (i = Len(msg) /\ msg[i] = SwitchModeCall(JsString(NewText))) =>
                         calculationMode' = "new"
      ]_vars

\* ---- C9 ----------------------------------------------------------------
LiveMics == { i \in DOMAIN attempts : attempts[i].mic = "live" }
OpenClocks == { i \in DOMAIN attempts :
                  attempts[i].inCtx = "open" \/ attempts[i].outCtx = "open" }
LiveSockets == { i \in DOMAIN attempts : attempts[i].sess \in {"connecting", "open"} }

\* C9 (as claimed): never more than one live microphone capture, pair of audio
\* clocks or stream handle.
C9_AtMostOneSession ==
    /\ Cardinality(LiveMics) <= 1
    /\ Cardinality(OpenClocks) <= 1
    /\ Cardinality(LiveSockets) <= 1

\* ---- C10 ---------------------------------------------------------------
\* C10 (as claimed): once the asynchronous steps of a start attempt that was
\* stopped have completed, none of its handles is held.
C10_StopReleasesAll ==
    \A i \in DOMAIN attempts :
        (attempts[i].stopReq /\ attempts[i].pc \in {"done", "failed"}) =>
            /\ attempts[i].mic # "live"
            /\ attempts[i].inCtx # "open"
            /\ attempts[i].outCtx # "open"
            /\ attempts[i].sess \notin {"connecting", "open"}

\* ------------------------------------------------------------------------
\* Teardown
\* ------------------------------------------------------------------------

\* no start attempt holds a microphone, an audio clock or a stream
NoHandleHeld ==
    \A i \in DOMAIN attempts :
        /\ attempts[i].mic # "live"
        /\ attempts[i].inCtx # "open"
        /\ attempts[i].outCtx # "open"
        /\ attempts[i].sess \notin {"connecting", "open"}

\* the state an explicit stop of a session is to leave
TornDown ==
    /\ ~isLiveActive
    /\ ~isAiSpeaking
    /\ mediaStreamRef = 0
    /\ inputAudioContextRef = 0
    /\ audioContextRef = 0
    /\ sessionRef = 0
    /\ sourcesRef = {}
    /\ NoHandleHeld

\* attempt a is the session that is Starting or Active
Current(a) == isLiveActive /\ a = Len(attempts)

\* ---- C11 ---------------------------------------------------------------
\* C11 (as claimed): a close notification for the Active session leaves Idle with
\* the microphone stopped, both clocks closed, the stream handle dropped and no
\* scheduled buffer.
C11_CloseReleasesAll ==
    [][\A a \in DOMAIN attempts : (Active(a) /\ onclose(a)) => TornDown']_vars

\* ---- C12 ---------------------------------------------------------------
\* C12 (as claimed): an error notification for the session that is Starting or
\* Active leaves the state of an explicit stop: Idle, nothing held, no scheduled
\* buffer; also when it arrives before connect returned the stream handle.
C12_ErrorTearsDown ==
    [][\A a \in DOMAIN attempts : (Current(a) /\ onerror(a)) => TornDown']_vars

\* ---- C13 ---------------------------------------------------------------
\* C13 (as claimed): when getUserMedia or the connect of the session that is
\* Starting fails, the controller is Idle afterwards, nothing is held and the user
\* was alerted.
C13_StartFailureTearsDown ==
    [][\A a \in DOMAIN attempts :
          (Current(a) /\ (getUserMediaRejected(a) \/ connectRejected(a))) =>
              (TornDown' /\ attempts'[a].alerted)]_vars

\* ---- C14 ---------------------------------------------------------------
\* a step that runs stopAudio
StopAudioStep(a) ==
    toggleLiveStop \/ getUserMediaRejected(a) \/ connectRejected(a) \/ onerror(a)

\* the handles of the attempts other than a are as they were
OthersUntouched(a) ==
    \A i \in DOMAIN attempts : i # a => attempts'[i] = attempts[i]

\* C14 (as claimed): every stop leaves Idle with all resources released and the
\* speaking indicator false, also for a session that never started; a stop in a
\* state that a stop left changes none of this and releases nothing again.
C14_TeardownIdempotent ==
    [][\A a \in DOMAIN attempts :
          StopAudioStep(a) =>
              /\ TornDown'
              /\ (~isLiveActive /\ mediaStreamRef = 0 /\ inputAudioContextRef = 0
                    /\ audioContextRef = 0 /\ sessionRef = 0 /\ sourcesRef = {}) =>
                     (UNCHANGED <<refVars, playVars, isLiveActive>> /\ OthersUntouched(a))]_vars

\* ---- C15 ---------------------------------------------------------------
\* stopAudio has run for attempt a's session: by a stop request, by the catch of
\* its start, or by an error or a close() that left its socket closing
StopInvoked(a) ==
    attempts[a].stopReq \/ attempts[a].pc = "failed" \/ attempts[a].sess = "closing"

\* C15 (as claimed): once stop was invoked for a session, a tool-call message
\* of its stream changes neither the amount text nor the mode, an audio message
\* schedules nothing and leaves the scheduled set and the speaking indicator,
\* and no captured chunk is sent.
C15_LateInputIgnored ==
    [][\A a \in DOMAIN attempts :
          StopInvoked(a) =>
              /\ \A msg \in Messages :
                    onmessage(a, msg) => UNCHANGED <<mrpInput, calculationMode>>
              /\ \A bytes \in AudioBytes :
                    onmessageAudio(a, bytes) =>
                        UNCHANGED <<scheduled, sourcesRef, isAiSpeaking>>
              /\ \A chunk \in Chunks :
                    onaudioprocess(a, chunk) => ~captured'.sent]_vars

\* ------------------------------------------------------------------------
\* Playback
\* ------------------------------------------------------------------------

\* the time at which the buffer of the i-th source.start call ends
EndOf(i) == scheduled[i].start + scheduled[i].duration

\* the i-th and the j-th scheduled buffer play on the same clock, i before j
SameSession(i, j) == i < j /\ scheduled[i].ctx = scheduled[j].ctx

\* ---- C16 ---------------------------------------------------------------
\* C16: every buffer is scheduled at max(clock now, nextStartTime) and
\* nextStartTime becomes its end; nextStartTime decreases only when a new session
\* starts; no buffer starts before the clock time at which it is scheduled; of two
\* buffers of a session the later one starts no earlier than the earlier one ends.
C16_MonotonicSchedule ==
    [][/\ Len(scheduled') > Len(scheduled) =>
            /\ scheduled'[Len(scheduled')].ctx = decoding.ctx
            /\ scheduled'[Len(scheduled')].at = attempts[decoding.ctx].time
            /\ scheduled'[Len(scheduled')].start >= scheduled'[Len(scheduled')].at
            /\ scheduled'[Len(scheduled')].start >= nextStartTimeRef
            /\ scheduled'[Len(scheduled')].start
                    \in {scheduled'[Len(scheduled')].at, nextStartTimeRef}
            /\ nextStartTimeRef' = scheduled'[Len(scheduled')].start
                                     + scheduled'[Len(scheduled')].duration
       /\ nextStartTimeRef' < nextStartTimeRef => Len(attempts') > Len(attempts)
       /\ \A i, j \in DOMAIN scheduled' :
            (i < j /\ scheduled'[i].ctx = scheduled'[j].ctx) =>
                scheduled'[j].start >= scheduled'[i].start + scheduled'[i].duration]_vars

\* a buffer that arrived after its predecessor had ended, and one that had to wait
\* for its predecessor
C16_Witness ==
    /\ Len(scheduled) = 3
    /\ SameSession(1, 3)
    /\ scheduled[2].start > EndOf(1)
    /\ scheduled[3].start > scheduled[3].at

\* ---- C17 ---------------------------------------------------------------
\* C17 (as claimed): of two buffers that arrive one after the other in a session,
\* the later starts exactly when the earlier ends.
C17_AlwaysGapless ==
    \A j \in DOMAIN scheduled :
        (j > 1 /\ SameSession(j - 1, j)) => scheduled[j].start = EndOf(j - 1)

\* C17 (as amended): of two buffers that arrive one after the other in a session,
\* the later starts exactly when the earlier ends if it arrives no later than
\* that; one that arrives later starts at the clock time of its arrival.
C17_GaplessUnlessLate ==
    \A j \in DOMAIN scheduled :
        (j > 1 /\ SameSession(j - 1, j)) =>
            scheduled[j].start = IF scheduled[j].at <= EndOf(j - 1)
                                 THEN EndOf(j - 1) ELSE scheduled[j].at

\* a buffer that arrives after its predecessor has played, and a third that
\* arrives together with it
C17_Witness ==
    /\ Len(scheduled) = 3
    /\ SameSession(1, 3)
    /\ scheduled[2].at > EndOf(1)
    /\ scheduled[3].at = scheduled[2].at
    /\ scheduled[3].start = EndOf(2)

\* ---- C18 ---------------------------------------------------------------
\* the first buffer that was scheduled on the clock of the i-th
FirstOf(i) == CHOOSE f \in DOMAIN scheduled :
                /\ scheduled[f].ctx = scheduled[i].ctx
                /\ \A g \in DOMAIN scheduled : scheduled[g].ctx = scheduled[i].ctx => f <= g

\* C18: the first three buffers of a session, when they arrive at the same clock
\* instant t0, start at t0, t0 + d1 and t0 + d1 + d2.
C18_ThreeAtOnce ==
    \A i \in DOMAIN scheduled :
        (/\ FirstOf(i) = i
         /\ i + 2 \in DOMAIN scheduled
         /\ SameSession(i, i + 2)
         /\ scheduled[i + 1].at = scheduled[i].at
         /\ scheduled[i + 2].at = scheduled[i].at) =>
            /\ scheduled[i].start = scheduled[i].at
            /\ scheduled[i + 1].start = scheduled[i].at + scheduled[i].duration
            /\ scheduled[i + 2].start = scheduled[i].at + scheduled[i].duration
                                          + scheduled[i + 1].duration

\* three buffers of durations 2, 1, 2 arrived when the clock stood at 1
C18_Witness ==
    /\ Len(scheduled) = 3
    /\ SameSession(1, 3)
    /\ \A i \in 1..3 : scheduled[i].at = 1
    /\ scheduled[1].duration = 2
    /\ scheduled[2].duration = 1
    /\ scheduled[3].start = 4

\* ---- C19 ---------------------------------------------------------------
\* C19 (as claimed): the speaking indicator is true exactly when the set of
\* scheduled, unfinished buffers is not empty.
C19_SpeakingIffScheduled == isAiSpeaking <=> (sourcesRef # {})

\* ---- C20 ---------------------------------------------------------------
\* x <= y for finite numbers
Leq(x, y) == x.n * y.d <= y.n * x.d

\* C20 (as claimed): a sample s of [-1, 1] is stored as the integer part of
\* s * 32768, without wrapping, and decoding it gives a value within 1/32768 of s.
C20_PcmRoundTrip ==
    captured # Null =>
        \A i \in DOMAIN captured.inputData :
            /\ captured.pcmData[i] = Trunc(Mul(captured.inputData[i], Fin(32768, 1)))
            /\ Leq(Sub(decodeAudioData(captured.pcmData, 1)[0][i], captured.inputData[i]),
                   Fin(1, 32768))
            /\ Leq(Sub(captured.inputData[i], decodeAudioData(captured.pcmData, 1)[0][i]),
                   Fin(1, 32768))

\* ---- C21 ---------------------------------------------------------------
\* C21: without a credential every step leaves the controller Idle with no
\* microphone, clock or stream, no analysis call outstanding and no analysis text,
\* and the snapshot is the one the amount text and the mode determine.
C21_NoCredential ==
    [][~hasApiKey =>
          /\ ~isLiveActive'
          /\ attempts' = <<>>
          /\ mediaStreamRef' = 0 /\ inputAudioContextRef' = 0
          /\ audioContextRef' = 0 /\ sessionRef' = 0
          /\ pending' = Null /\ ~isLoadingAi' /\ aiAnalysis' = <<>>
          /\ RecomputedFor(results', parseFloat(mrpInput'), calculationMode')]_vars

\* without a credential, 1.5 was entered as the new MRP and the snapshot is there
C21_Witness ==
    /\ ~hasApiKey
    /\ mrpInput = <<"1", ".", "5">>
    /\ calculationMode = "new"
    /\ results # Null
    /\ results.row12.newMrp = Fin(3, 2)

\* ---- C22 ---------------------------------------------------------------
\* the text consists of digits and at most one decimal point
DigitsAndOnePoint(v) ==
    /\ \A i \in DOMAIN v : v[i] \in {"0", "1", "2", "3", "4", "5", "6", "7", "8", "9", "."}
    /\ Cardinality({ i \in DOMAIN v : v[i] = "." }) <= 1

\* C22: a manual edit that proposes an empty text or digits with at most one
\* decimal point becomes the amount text; one that proposes anything else leaves
\* the amount text, the mode and the snapshot as they were.
C22_EditPattern ==
    [][\A v \in EditTexts :
          handleInputChange(v) =>
              IF DigitsAndOnePoint(v)
              THEN mrpInput' = v
              ELSE UNCHANGED <<mrpInput, calculationMode, results>>]_vars

\* an edit that ends in a point was committed
C22_Witness ==
    /\ mrpInput = <<"1", "5", ".">>
    /\ results # Null
    /\ results.row12.inputMrp = Fin(15, 1)

\* ---- C23 ---------------------------------------------------------------
\* what is held, in the order in which the teardown is to release it
ExpectedTeardown ==
    (IF mediaStreamRef # 0 THEN <<"mediaStream">> ELSE <<>>)
    \o (IF inputAudioContextRef # 0 THEN <<"inputAudioContext">> ELSE <<>>)
    \o (IF audioContextRef # 0 THEN <<"audioContext">> ELSE <<>>)
    \o (IF sessionRef # 0 THEN <<"session">> ELSE <<>>)
    \o <<"sources">>

\* C23 (as claimed): every exit of a session (stop, error, start failure, remote
\* close) releases the microphone, then the clocks, then the stream, then the
\* scheduled buffers.
C23_TeardownOrder ==
    [][\A a \in DOMAIN attempts :
          (StopAudioStep(a) \/ (Active(a) /\ onclose(a))) =>
              teardownLog' = ExpectedTeardown]_vars

\* ---- C24 ---------------------------------------------------------------
\* C24 (as claimed): once recomputation has run for an amount text or a mode
\* that changed, there is no analysis text.
C24_ChangeClearsAnalysis ==
    [][(Recomputed' /\ (effect # "done" \/ renderedDeps' # renderedDeps)) =>
          aiAnalysis' = <<>>]_vars

\* ---- C25 ---------------------------------------------------------------
\* C25 (as claimed): an analysis text that is stored was generated from the
\* current snapshot.
C25_AnalysisOfCurrentSnapshot ==
    aiAnalysis # <<>> => (results # Null /\ aiAnalysis.data = results)

\* ---- C26 ---------------------------------------------------------------
\* C26 (as claimed): the amount handed to generateAnalysis, and named in the prompt
\* as the Original MRP, is the original MRP of the snapshot handed with it.
C26_PromptOriginalMrp ==
    pending # Null =>
        \A q \in Rows(pending.data) :
            /\ pending.mrp = q.inputMrp
            /\ parseFloat(pending.prompt.originalMrp) = q.inputMrp

====
